---- MODULE Spec2Model ----
(***************************************************************************)
(* A model of the combo_gen enumeration engine in its three variants:      *)
(*   "basic"  src/Rust/combo_gen/src/main.rs                               *)
(*   "fixed"  src/Rust/v2/src/combo_gen_fixed.rs                           *)
(*   "ultra"  src/Rust/v2/src/combo_gen_ultra.rs                           *)
(* The pure functions (pow_u64, index_to_digits, odometer_increment, the   *)
(* renderers, the partition loop) are operators computed as the code       *)
(* computes them; the coordinator (main) and its worker threads are a      *)
(* state machine.                                                          *)
(***************************************************************************)
EXTENDS Integers, Sequences, FiniteSets, TLC

(***************************************************************************)
(* Bounds of the model.                                                    *)
(***************************************************************************)
\* Width of the index type.  The code uses u64; the model keeps the
\* arithmetic and scales the width so that overflow is within reach.
U64Bits == 6
\* Width of the u32 that `exp as u32` truncates to (ultra's pow_u64).
U32Bits == 3
\* Largest alphabet: the charset holds the first `base` letters of a, b, c, ...
MaxBase == 3
\* Largest ordinary combination length.
MaxLen == 2
\* Largest requested thread count.
MaxThreads == 2
\* Largest --limit value.
MaxLimit == 3
\* Largest index found in a checkpoint file before the first run.
MaxResume == 2
\* A run is modelled when it has at most this many combinations to produce.
MaxWork == 3
\* The model's flush threshold in bytes (1 MiB in ultra, 32 KiB in basic,
\* --batch in fixed).
FlushBytes == 4
\* The model's progress batch (50,000 in ultra).
ProgressBatch == 2
\* Runs of the program over one checkpoint file.
MaxRuns == 2
\* Sink writes the environment may fail.
MaxFaults == 1
\* Bounds of the harness that applies the codec functions.
CodecMaxBase == 3
CodecMaxLen == 3
\* Bounds of the states the partition is applied to on its own.
PartMaxThreads == 4
PartMaxLimit == 8
PartMaxResume == 3
\* Bytes in a checkpoint file of the harness that reads the resume index.
ResumeMaxText == 3
RenderMaxLen == 9
RenderBase == 2

U64_MAX == 2 ^ U64Bits - 1
U32_MOD == 2 ^ U32Bits

(***************************************************************************)
(* Option<u64>.                                                            *)
(***************************************************************************)
None == << >>
Some(v) == << v >>
IsSome(o) == Len(o) = 1
Unwrap(o) == o[1]

Min(a, b) == IF a < b THEN a ELSE b

(***************************************************************************)
(* Bytes.                                                                  *)
(***************************************************************************)
LF == 10
\* The charset of `base` bytes: 'a', 'b', 'c', ...
Charset(base) == [i \in 1..base |-> 96 + i]

(***************************************************************************)
(* pow_u64                                                                 *)
(***************************************************************************)
\* base^exp, except that every value above U64_MAX is reported as
\* U64_MAX + 1 (the exact power of a long exponent is beyond the integers
\* the model computes with).
RECURSIVE PowSat(_, _)
PowSat(base, exp) ==
    IF exp = 0 THEN 1 ELSE Min(base * PowSat(base, exp - 1), U64_MAX + 1)

\* u64::checked_pow of the standard library, by its contract.
checked_pow(base, exp) ==
    IF PowSat(base, exp) > U64_MAX THEN None ELSE Some(PowSat(base, exp))

\* The loop of pow_u64: the product is kept in u128, which base * r never
\* overflows while r <= U64_MAX, and is checked after every multiplication.
RECURSIVE pow_loop(_, _, _)
pow_loop(r, base, n) ==
    IF n = 0 THEN Some(r)
    ELSE IF r * base > U64_MAX THEN None
    ELSE pow_loop(r * base, base, n - 1)

pow_u64_basic(base, exp) == pow_loop(1, base, exp)

pow_u64_fixed(base, exp) == pow_loop(1, base, exp)

\* ultra: base.checked_pow(exp as u32).or_else(the loop over 0..exp)
pow_u64_ultra(base, exp) ==
    LET first == checked_pow(base, exp % U32_MOD)
    IN  IF IsSome(first) THEN first ELSE pow_loop(1, base, exp)

pow_u64(variant, base, exp) ==
    CASE variant = "basic" -> pow_u64_basic(base, exp)
      [] variant = "fixed" -> pow_u64_fixed(base, exp)
      [] variant = "ultra" -> pow_u64_ultra(base, exp)

(***************************************************************************)
(* index_to_digits: digits[pos] = index % base; index /= base, from the    *)
(* last position to the first.  Positions are 1..len here.                 *)
(***************************************************************************)
RECURSIVE index_to_digits_loop(_, _, _, _)
index_to_digits_loop(index, base, pos, digits) ==
    IF pos = 0 THEN digits
    ELSE index_to_digits_loop(index \div base, base, pos - 1,
                              [digits EXCEPT ![pos] = index % base])

\* A variant that fills the positions from the first to the last, the least
\* significant digit first.
index_to_digits_lsf(index, base, len) ==
    LET d == index_to_digits_loop(index, base, len, [p \in 1..len |-> 0])
    IN  [p \in 1..len |-> d[len + 1 - p]]

\* A variant over a vector that is one entry short: the first digit is left out.
index_to_digits_one_short(index, base, len) ==
    LET d == index_to_digits_loop(index, base, len, [p \in 1..len |-> 0])
    IN  [p \in 1..(len - 1) |-> d[p + 1]]

index_to_digits(index, base, len) ==
    index_to_digits_loop(index, base, len, [p \in 1..len |-> 0])

(***************************************************************************)
(* odometer_increment: the new digits and the returned flag.               *)
(***************************************************************************)
\* basic and fixed: v = digits[pos].wrapping_add(1); if v < base store it
\* and return false, else store 0 and carry on.
RECURSIVE odometer_loop_wrapping(_, _, _)
odometer_loop_wrapping(digits, base, pos) ==
    IF pos = 0 THEN [digits |-> digits, wrapped |-> TRUE]
    ELSE LET v == (digits[pos] + 1) % U32_MOD
         IN  IF v < base
             THEN [digits |-> [digits EXCEPT ![pos] = v], wrapped |-> FALSE]
             ELSE odometer_loop_wrapping([digits EXCEPT ![pos] = 0], base, pos - 1)

\* ultra: digits[pos] += 1; if digits[pos] < base return false;
\* digits[pos] = 0.
RECURSIVE odometer_loop_ultra(_, _, _)
odometer_loop_ultra(digits, base, pos) ==
    IF pos = 0 THEN [digits |-> digits, wrapped |-> TRUE]
    ELSE LET bumped == [digits EXCEPT ![pos] = digits[pos] + 1]
         IN  IF bumped[pos] < base
             THEN [digits |-> bumped, wrapped |-> FALSE]
             ELSE odometer_loop_ultra([bumped EXCEPT ![pos] = 0], base, pos - 1)

\* A variant that counts from the first position: the carry runs to the last.
odometer_from_the_front(variant, digits, base) ==
    LET n == Len(digits)
        r == odometer_loop_ultra([p \in 1..n |-> digits[n + 1 - p]], base, n)
    IN  [digits |-> [p \in 1..n |-> r.digits[n + 1 - p]], wrapped |-> r.wrapped]

\* A variant without the carry: the last digit is reset and nothing else.
odometer_without_carry(variant, digits, base) ==
    LET n == Len(digits)
    IN  IF n = 0 THEN [digits |-> digits, wrapped |-> TRUE]
        ELSE IF digits[n] + 1 < base
        THEN [digits |-> [digits EXCEPT ![n] = digits[n] + 1], wrapped |-> FALSE]
        ELSE [digits |-> [digits EXCEPT ![n] = 0],
              wrapped |-> \A p \in 1..n : digits[p] = base - 1]

\* A variant that returns true whenever the last position was reset, a carry
\* into an earlier position included.
odometer_reporting_carry(variant, digits, base) ==
    LET r == odometer_loop_ultra(digits, base, Len(digits))
    IN  [digits |-> r.digits,
         wrapped |-> Len(digits) = 0 \/ r.digits[Len(digits)] = 0]

odometer_increment(variant, digits, base) ==
    IF variant = "ultra"
    THEN odometer_loop_ultra(digits, base, Len(digits))
    ELSE odometer_loop_wrapping(digits, base, Len(digits))

(***************************************************************************)
(* Rendering a digit vector: alphabet[digit] per digit, then a line feed.  *)
(* A Rust index d is position d + 1 of the model's sequence.               *)
(***************************************************************************)
\* basic: for &d in &digits { push(charset[d]) }; push(b'\n')
\* fixed: the collected combo, extend_from_slice, push(b'\n')
render_loop(digits, charset) ==
    [p \in 1..Len(digits) |-> charset[digits[p] + 1]] \o << LF >>

\* fixed and ultra (memory mode): digits.iter().map(|&d| charset[d]).collect()
combo_of(digits, charset) ==
    [p \in 1..Len(digits) |-> charset[digits[p] + 1]]

\* A variant that pushes the bytes of the digits from the last to the first.
generate_combo_backwards(digits, charset, out) ==
    out \o [p \in 1..Len(digits) |-> charset[digits[Len(digits) + 1 - p] + 1]]
        \o << LF >>

\* ultra: one unrolled arm per length 1..8, the loop for every other length.
generate_combo_fast(digits, charset, out) ==
    LET c(k) == charset[digits[k] + 1]
    IN  CASE Len(digits) = 1 -> out \o << c(1), LF >>
          [] Len(digits) = 2 -> out \o << c(1), c(2), LF >>
          [] Len(digits) = 3 -> out \o << c(1), c(2), c(3), LF >>
          [] Len(digits) = 4 -> out \o << c(1), c(2), c(3), c(4), LF >>
          [] Len(digits) = 5 -> out \o << c(1), c(2), c(3), c(4), c(5), LF >>
          [] Len(digits) = 6 -> out \o << c(1), c(2), c(3), c(4), c(5), c(6), LF >>
          [] Len(digits) = 7 ->
               out \o << c(1), c(2), c(3), c(4), c(5), c(6), c(7), LF >>
          [] Len(digits) = 8 ->
               out \o << c(1), c(2), c(3), c(4), c(5), c(6), c(7), c(8), LF >>
          [] OTHER -> out \o render_loop(digits, charset)

(***************************************************************************)
(* The partition loop of main: per_thread, remainder, the reduction of     *)
(* threads when per_thread is 0, and the spawn loop's start and count of   *)
(* every thread.  threads >= 1 here; see Launch for threads = 0.           *)
(***************************************************************************)
\* A variant that hands the leftover elements to the last threads.
RECURSIVE spawn_loop_extra_last(_, _, _, _, _, _)
spawn_loop_extra_last(tid, threads, per_thread, remainder, current_index, ranges) ==
    IF tid = threads THEN ranges
    ELSE LET count == per_thread + (IF tid >= threads - remainder THEN 1 ELSE 0)
         IN  IF count = 0 THEN ranges
             ELSE spawn_loop_extra_last(tid + 1, threads, per_thread, remainder,
                                        current_index + count,
                                        Append(ranges, [start |-> current_index,
                                                        count |-> count]))

RECURSIVE spawn_loop(_, _, _, _, _, _)
spawn_loop(tid, threads, per_thread, remainder, current_index, ranges) ==
    IF tid = threads THEN ranges
    ELSE LET count == per_thread + (IF remainder > 0 THEN 1 ELSE 0)
         IN  IF count = 0 THEN ranges
             ELSE spawn_loop(tid + 1, threads, per_thread,
                             IF remainder > 0 THEN remainder - 1 ELSE remainder,
                             current_index + count,
                             Append(ranges, [start |-> current_index, count |-> count]))

\* A variant that keeps the requested thread count when per_thread is 0.
partition_keeping_threads(start_index, remaining, threads) ==
    LET per_thread == remaining \div threads
        remainder  == remaining % threads
    IN  IF per_thread = 0
        THEN spawn_loop(0, threads, 1, 0, start_index, << >>)
        ELSE spawn_loop(0, threads, per_thread, remainder, start_index, << >>)

\* A variant that forgets the remainder of the division.
partition_without_remainder(start_index, remaining, threads) ==
    LET per_thread == remaining \div threads
    IN  IF per_thread = 0
        THEN spawn_loop(0, remaining, 1, 0, start_index, << >>)
        ELSE spawn_loop(0, threads, per_thread, 0, start_index, << >>)

partition(start_index, remaining, threads) ==
    LET per_thread == remaining \div threads
        remainder  == remaining % threads
    IN  IF per_thread = 0
        THEN spawn_loop(0, remaining, 1, 0, start_index, << >>)
        ELSE spawn_loop(0, threads, per_thread, remainder, start_index, << >>)

(***************************************************************************)
(* The checkpoint file's text: final_idx.to_string() when written, and     *)
(* read_to_string(..).trim().parse().unwrap_or(0) when read.               *)
(***************************************************************************)
RECURSIVE to_string(_)
to_string(n) ==
    IF n < 10 THEN << 48 + n >> ELSE to_string(n \div 10) \o << 48 + (n % 10) >>

IsSpace(ch) == ch \in {9, 10, 11, 12, 13, 32}
IsDigit(ch) == ch \in 48..57

RECURSIVE trim_start(_)
trim_start(text) ==
    IF text # << >> /\ IsSpace(Head(text)) THEN trim_start(Tail(text)) ELSE text

RECURSIVE trim_end(_)
trim_end(text) ==
    IF text # << >> /\ IsSpace(text[Len(text)])
    THEN trim_end(SubSeq(text, 1, Len(text) - 1)) ELSE text

trim(text) == trim_end(trim_start(text))

\* The digits of a u64 literal, most significant first, checked for overflow
\* after every digit.
RECURSIVE parse_digits(_, _)
parse_digits(text, acc) ==
    IF text = << >> THEN Some(acc)
    ELSE IF ~IsDigit(Head(text)) THEN None
    ELSE IF acc * 10 + (Head(text) - 48) > U64_MAX THEN None
    ELSE parse_digits(Tail(text), acc * 10 + (Head(text) - 48))

\* str::parse::<u64>: empty text and a lone sign are errors, one leading '+'
\* is accepted, '-' is not.
parse_u64(text) ==
    IF text = << >> THEN None
    ELSE IF Head(text) = 43
         THEN (IF Len(text) = 1 THEN None ELSE parse_digits(Tail(text), 0))
         ELSE parse_digits(text, 0)

unwrap_or(o, default) == IF IsSome(o) THEN Unwrap(o) ELSE default

\* std::fs::read_to_string: the text of the file, or an error when the bytes
\* are not UTF-8 (in the model, a byte above 127).
read_to_string(file) ==
    IF \A p \in DOMAIN file.text : file.text[p] < 128 THEN Some(file.text) ELSE None

\* A variant that never reads the checkpoint.
read_start_index_ignoring_file(resume, file) == 0

\* A variant that takes the text as it is, without trim().
read_start_index_untrimmed(resume, file) ==
    IF resume
    THEN (IF file.exists
          THEN unwrap_or(parse_u64(unwrap_or(read_to_string(file), << 48 >>)), 0)
          ELSE 0)
    ELSE 0

\* The resume index main reads at startup.  A file is [exists, text]:
\* read_to_string(resume).unwrap_or_else(|_| "0").trim().parse().unwrap_or(0)
read_start_index(resume, file) ==
    IF resume
    THEN (IF file.exists
          THEN unwrap_or(parse_u64(trim(unwrap_or(read_to_string(file), << 48 >>))), 0)
          ELSE 0)
    ELSE 0

(***************************************************************************)
(* The state of a run.                                                     *)
(***************************************************************************)
VARIABLES
    args,             \* the command line: variant, base, length, threads,
                      \* limit, mode, resume
    cpc,              \* where main is
    threads,          \* main's `threads` (0 becomes 1; reduced to remaining)
    total,            \* main's `total`: what pow_u64 returned
    effective_total,
    start_index,
    workers,          \* one record per spawned thread, in spawn order
    sinkLock,         \* the sink's mutex is held
    poisoned,         \* a thread panicked while holding the sink's mutex
    outCreated,       \* this run created (truncated) the output file
    sink,             \* the bytes the output writer has accepted, in order
    flushCount,       \* flushes of the writer by main
    memory_storage,   \* the shared collection of memory mode
    produced,         \* AtomicU64
    resume_counter,   \* AtomicU64
    ckptFile,         \* the checkpoint file: [exists, text]
    ckptWrites,       \* calls of std::fs::write on the checkpoint by this run
    ckptFailed,       \* the write of the checkpoint file by this run failed
    summary,          \* the count the final report prints, once printed
    faults,           \* writes the environment may still fail
    wfailed,          \* a sink write of this run failed
    run,              \* the number of this run over the checkpoint file
    history,          \* what the earlier runs did: one record per run
    codec             \* the harness that applies the codec functions

runVars == << args, cpc, threads, total, effective_total, start_index, workers,
              sinkLock, poisoned, outCreated, sink, flushCount, memory_storage,
              produced, resume_counter, ckptFile, ckptWrites, ckptFailed,
              summary, faults, wfailed, run, history >>

vars == << runVars, codec >>

Variants == {"basic", "fixed", "ultra"}
Modes == {"stream", "memory", "dry"}

\* The lengths a run is given: none, the ordinary ones, one whose power
\* overflows u64 for every base >= 2, and one that does not fit in u32.
Lengths == (0..MaxLen) \cup {U64Bits, U32_MOD}

\* basic knows neither --memory, --dry-run nor --resume.  --batch is the
\* flush threshold of fixed only: 0 is tried where it is one.
ArgSets ==
    { a \in [variant : Variants, base : 0..MaxBase, length : Lengths,
             threads : 0..MaxThreads,
             limit : {None} \cup {Some(l) : l \in 0..MaxLimit},
             mode : Modes, resume : BOOLEAN, batch : {0, FlushBytes}] :
        /\ a.variant = "basic" => (a.mode = "stream" /\ ~a.resume)
        /\ a.batch = 0 => (a.variant = "fixed" /\ a.mode = "stream" /\ ~a.resume) }

NoFile == [exists |-> FALSE, text |-> << >>]
FileOf(text) == [exists |-> TRUE, text |-> text]

\* Checkpoint files a first run may find.
CkptFiles == {NoFile} \cup {FileOf(to_string(n)) : n \in 0..MaxResume}

(***************************************************************************)
(* main up to the partition: validation, pow_u64, the limit, the resume    *)
(* index.  The outcome is where main is afterwards.                        *)
(***************************************************************************)
Plan(outcome, thr, tot, eff, start) ==
    [outcome |-> outcome, threads |-> thr, total |-> tot,
     effective_total |-> eff, start_index |-> start]

\* A variant without the check of the resume index against effective_total.
configure_v2_without_resume_check(a, file) ==
    LET thr == IF a.threads = 0 THEN 1 ELSE a.threads
        tot == pow_u64(a.variant, a.base, a.length)
        eff == IF IsSome(a.limit) THEN Min(Unwrap(a.limit), Unwrap(tot))
                                  ELSE Unwrap(tot)
        start == read_start_index(a.resume, file)
    IN  IF a.length = 0 THEN Plan("exit_length", a.threads, None, 0, 0)
        ELSE IF a.base = 0 THEN Plan("exit_charset", a.threads, None, 0, 0)
        ELSE IF ~IsSome(tot) THEN Plan("exit_overflow", thr, tot, 0, 0)
        ELSE IF eff = 0 THEN Plan("exit_nothing", thr, tot, eff, 0)
        ELSE Plan("configured", thr, tot, eff, start)

configure_v2(a, file) ==
    LET thr == IF a.threads = 0 THEN 1 ELSE a.threads
        tot == pow_u64(a.variant, a.base, a.length)
        eff == IF IsSome(a.limit) THEN Min(Unwrap(a.limit), Unwrap(tot))
                                  ELSE Unwrap(tot)
        start == read_start_index(a.resume, file)
    IN  IF a.length = 0 THEN Plan("exit_length", a.threads, None, 0, 0)
        ELSE IF a.base = 0 THEN Plan("exit_charset", a.threads, None, 0, 0)
        ELSE IF ~IsSome(tot) THEN Plan("exit_overflow", thr, tot, 0, 0)
        ELSE IF eff = 0 THEN Plan("exit_nothing", thr, tot, eff, 0)
        ELSE IF start >= eff THEN Plan("exit_resume", thr, tot, eff, start)
        ELSE Plan("configured", thr, tot, eff, start)

configure_basic(a) ==
    LET tot == pow_u64(a.variant, a.base, a.length)
        eff == IF IsSome(a.limit)
               THEN (IF Unwrap(a.limit) > Unwrap(tot) THEN Unwrap(tot)
                                                      ELSE Unwrap(a.limit))
               ELSE Unwrap(tot)
    IN  IF a.base < 2 THEN Plan("panic", a.threads, None, 0, 0)
        ELSE IF ~IsSome(tot) THEN Plan("exit_overflow", a.threads, tot, 0, 0)
        ELSE IF a.limit = Some(0) THEN Plan("exit_nothing", a.threads, tot, 0, 0)
        ELSE Plan("configured", a.threads, tot, eff, 0)

configure(a, file) ==
    IF a.variant = "basic" THEN configure_basic(a) ELSE configure_v2(a, file)

\* The combinations a run is to produce.
PlannedWork(a, file) ==
    LET p == configure(a, file)
    IN  IF p.outcome = "configured" THEN p.effective_total - p.start_index ELSE 0

Terminal == {"exit_length", "exit_charset", "exit_overflow", "exit_nothing",
             "exit_resume", "panic", "reported"}

CodecOff == [pc |-> "off"]

\* Nothing has run yet: no thread, no output, the counters at 0.
Untouched ==
    /\ workers = << >>
    /\ sinkLock = FALSE
    /\ poisoned = FALSE
    /\ outCreated = FALSE
    /\ sink = << >>
    /\ flushCount = 0
    /\ memory_storage = << >>
    /\ produced = 0
    /\ resume_counter = 0
    /\ ckptWrites = 0
    /\ ckptFailed = FALSE
    /\ summary = None
    /\ wfailed = FALSE
    /\ run = 1
    /\ history = << >>

InitRun ==
    /\ args \in ArgSets
    /\ ckptFile \in CkptFiles
    /\ ~args.resume => ckptFile = NoFile
    /\ PlannedWork(args, ckptFile) <= MaxWork
    /\ faults = MaxFaults
    /\ cpc = "start"
    /\ threads = args.threads
    /\ total = None
    /\ effective_total = 0
    /\ start_index = 0
    /\ Untouched

Init ==
    /\ InitRun
    /\ codec = CodecOff

Configure ==
    /\ cpc = "start"
    /\ LET p == configure(args, ckptFile)
       IN  /\ cpc' = p.outcome
           /\ threads' = p.threads
           /\ total' = p.total
           /\ effective_total' = p.effective_total
           /\ start_index' = p.start_index
    /\ UNCHANGED << args, workers, sinkLock, poisoned, outCreated, sink,
                    flushCount, memory_storage, produced, resume_counter,
                    ckptFile, ckptWrites, ckptFailed, summary, faults, wfailed, run,
                    history, codec >>

(***************************************************************************)
(* main: the output file, the partition and the spawn loop.  A thread's    *)
(* first statements (its digit vector, its empty buffers) are local and    *)
(* are part of its spawn.                                                  *)
(***************************************************************************)
NewWorker(range) ==
    [start |-> range.start, count |-> range.count,
     digits |-> index_to_digits(range.start, args.base, args.length),
     done |-> 0, buf |-> << >>, mem |-> << >>, local_count |-> 0,
     progress_acc |-> 0, pc |-> "loop", wpos |-> 0, wraps |-> 0]

Spawn(ranges) == [t \in 1..Len(ranges) |-> NewWorker(ranges[t])]

\* basic: File::create, then the partition of effective_total from index 0;
\* effective_total / threads panics when threads is 0.
LaunchBasic ==
    /\ args.variant = "basic"
    /\ outCreated' = TRUE
    /\ sink' = << >>
    /\ IF threads = 0
       THEN /\ cpc' = "panic"
            /\ UNCHANGED << threads, workers >>
       ELSE /\ cpc' = "running"
            /\ threads' = IF effective_total \div threads = 0
                          THEN effective_total ELSE threads
            /\ workers' = Spawn(partition(0, effective_total, threads))
    /\ UNCHANGED << produced, resume_counter, memory_storage >>

\* A variant that creates the output file in every mode.
LaunchV2CreatingAlways ==
    /\ args.variant # "basic"
    /\ LET remaining == effective_total - start_index
       IN  /\ threads' = IF remaining \div threads = 0 THEN remaining ELSE threads
           /\ workers' = Spawn(partition(start_index, remaining, threads))
    /\ produced' = 0
    /\ resume_counter' = start_index
    /\ outCreated' = TRUE
    /\ sink' = << >>
    /\ memory_storage' = << >>
    /\ cpc' = "running"

\* fixed and ultra: the counters, the partition of remaining from
\* start_index, File::create unless --memory or --dry-run, the spawn loop.
LaunchV2 ==
    /\ args.variant # "basic"
    /\ LET remaining == effective_total - start_index
       IN  /\ threads' = IF remaining \div threads = 0 THEN remaining ELSE threads
           /\ workers' = Spawn(partition(start_index, remaining, threads))
    /\ produced' = 0
    /\ resume_counter' = start_index
    /\ IF args.mode = "stream"
       THEN outCreated' = TRUE /\ sink' = << >>
       ELSE UNCHANGED << outCreated, sink >>
    /\ memory_storage' = << >>
    /\ cpc' = "running"

Launch ==
    /\ cpc = "configured"
    /\ (LaunchBasic \/ LaunchV2)
    /\ UNCHANGED << args, total, effective_total, start_index, sinkLock,
                    poisoned, flushCount, ckptFile, ckptWrites, ckptFailed, summary,
                    faults, wfailed, run, history, codec >>

(***************************************************************************)
(* A worker thread.  Each action holds the thread's local statements up to *)
(* and including one access to shared state.                               *)
(***************************************************************************)
\* WRITE_THRESHOLD (ultra), 32 * 1024 (basic), batch_size (fixed).
write_threshold == IF args.variant = "fixed" THEN args.batch ELSE FlushBytes

\* PROGRESS_BATCH (ultra).
PROGRESS_BATCH == ProgressBatch

base_u32 == args.base % U32_MOD

\* A variant whose iteration leaves the digits as they are.
AdvanceWithoutOdometer(w) == [w EXCEPT !.done = @ + 1]

\* odometer_increment(&mut digits, base_u32) at the end of an iteration.
Advance(w) ==
    LET r == odometer_increment(args.variant, w.digits, base_u32)
    IN  [w EXCEPT !.digits = r.digits, !.done = @ + 1,
                  !.wraps = @ + (IF r.wrapped THEN 1 ELSE 0)]

\* A variant without the final flush: what is left in the buffer is lost.
AfterLoopPcWithoutFlush(w) ==
    CASE args.variant = "basic" -> "count"
      [] args.variant = "fixed" -> IF args.mode = "memory" THEN "extend" ELSE "count"
      [] args.variant = "ultra" -> IF args.mode = "memory" THEN "extend" ELSE "tail"

\* Where a thread goes when its loop is over: the final flush of a non-empty
\* buffer, the merge of memory mode, or the counters.
AfterLoopPc(w) ==
    CASE args.variant = "basic" -> IF w.buf # << >> THEN "lock" ELSE "count"
      [] args.variant = "fixed" ->
           IF args.mode = "stream" /\ w.buf # << >> THEN "lock"
           ELSE IF args.mode = "memory" THEN "extend" ELSE "count"
      [] args.variant = "ultra" ->
           IF args.mode = "memory" THEN "extend"
           ELSE IF args.mode = "stream" /\ w.buf # << >> THEN "lock"
           ELSE "tail"

Settle(w) ==
    [w EXCEPT !.pc = IF w.done = w.count THEN AfterLoopPc(w) ELSE "loop"]

\* One iteration of basic's loop, up to the flush.
IterBasic(w) ==
    LET w1 == [w EXCEPT !.buf = @ \o render_loop(w.digits, Charset(args.base)),
                        !.local_count = @ + 1]
    IN  IF Len(w1.buf) >= write_threshold
        THEN [w1 EXCEPT !.pc = "lock"]
        ELSE Settle(Advance(w1))

\* One iteration of fixed's loop, up to the flush or the fetch_add(1).
IterFixed(w) ==
    LET combo == combo_of(w.digits, Charset(args.base))
        w1 == CASE args.mode = "memory" -> [w EXCEPT !.mem = Append(@, combo)]
                [] args.mode = "stream" -> [w EXCEPT !.buf = @ \o combo \o << LF >>]
                [] OTHER -> w
        w2 == [w1 EXCEPT !.local_count = @ + 1]
    IN  IF args.mode = "stream" /\ Len(w2.buf) >= write_threshold
        THEN [w2 EXCEPT !.pc = "lock"]
        ELSE Settle(Advance(w2))

\* The progress batch of ultra: the accumulator after an iteration, and what
\* is added to resume_counter.
AccAfter(acc) == IF acc + 1 >= PROGRESS_BATCH THEN 0 ELSE acc + 1
AccAdded(acc) == IF acc + 1 >= PROGRESS_BATCH THEN acc + 1 ELSE 0

\* One iteration of ultra's loops, up to the flush.
IterUltra(w) ==
    CASE args.mode = "memory" ->
           Settle([Advance([w EXCEPT
                      !.mem = Append(@, combo_of(w.digits, Charset(args.base)))])
                   EXCEPT !.local_count = @ + 1,
                          !.progress_acc = AccAfter(@)])
      [] args.mode = "dry" ->
           Settle([Advance(w) EXCEPT !.local_count = @ + 1])
      [] OTHER ->
           LET w1 == [w EXCEPT
                        !.buf = generate_combo_fast(w.digits, Charset(args.base), @),
                        !.local_count = @ + 1,
                        !.progress_acc = AccAfter(@)]
           IN  IF Len(w1.buf) >= write_threshold
               THEN [w1 EXCEPT !.pc = "lock"]
               ELSE Settle(Advance(w1))

\* A variant whose loop never flushes: every line stays in the buffer until
\* the loop is over.
IterWithoutFlush(w) ==
    Settle(Advance([w EXCEPT
                      !.buf = @ \o render_loop(w.digits, Charset(args.base)),
                      !.local_count = @ + 1]))

Iter(w) ==
    CASE args.variant = "basic" -> IterBasic(w)
      [] args.variant = "fixed" -> IterFixed(w)
      [] args.variant = "ultra" -> IterUltra(w)

\* What the iteration adds to resume_counter: ultra's full progress batch
\* (not in dry-run, whose loop has no accumulator); fixed's fetch_add(1) at
\* the end of an iteration, which a flush puts off until after the write.
IterAdds(w) ==
    CASE args.variant = "ultra" /\ args.mode # "dry" -> AccAdded(w.progress_acc)
      [] args.variant = "fixed" /\ Iter(w).done = w.done + 1 -> 1
      [] OTHER -> 0

WorkerIter(t) ==
    /\ cpc = "running"
    /\ workers[t].pc = "loop"
    /\ workers[t].done < workers[t].count
    /\ workers' = [workers EXCEPT ![t] = Iter(@)]
    /\ resume_counter' = resume_counter + IterAdds(workers[t])
    /\ UNCHANGED << args, cpc, threads, total, effective_total, start_index,
                    sinkLock, poisoned, outCreated, sink, flushCount,
                    memory_storage, produced, ckptFile, ckptWrites, ckptFailed, summary,
                    faults, wfailed, run, history, codec >>

\* A variant in which the lock never makes a thread wait.
LockNeverHeld == TRUE

\* out.lock(): the thread waits while the mutex is held; lock().unwrap()
\* panics on a poisoned mutex.
LockFree == ~sinkLock

WorkerLock(t) ==
    /\ cpc = "running"
    /\ workers[t].pc = "lock"
    /\ IF poisoned
       THEN /\ workers' = [workers EXCEPT ![t].pc = "panicked"]
            /\ UNCHANGED sinkLock
       ELSE /\ LockFree
            /\ sinkLock' = TRUE
            /\ workers' = [workers EXCEPT ![t].pc = "write", ![t].wpos = 0]
    /\ UNCHANGED << args, cpc, threads, total, effective_total, start_index,
                    poisoned, outCreated, sink, flushCount, memory_storage,
                    produced, resume_counter, ckptFile, ckptWrites, ckptFailed, summary,
                    faults, wfailed, run, history, codec >>

\* A variant without buf.clear(): the written bytes stay in the buffer.
AfterWriteKeepingBuffer(w) ==
    IF w.done < w.count
    THEN (IF args.variant = "fixed"
          THEN [w EXCEPT !.wpos = 0, !.pc = "post"]
          ELSE Settle(Advance([w EXCEPT !.wpos = 0])))
    ELSE [w EXCEPT !.wpos = 0,
                   !.pc = IF args.variant = "ultra" THEN "tail" ELSE "count"]

\* After the block that wrote the buffer: buf.clear() inside the loop (and in
\* basic's final flush), then the rest of the iteration.  fixed still has its
\* fetch_add(1) to do before the odometer.
AfterWrite(w) ==
    IF w.done < w.count
    THEN (IF args.variant = "fixed"
          THEN [w EXCEPT !.buf = << >>, !.wpos = 0, !.pc = "post"]
          ELSE Settle(Advance([w EXCEPT !.buf = << >>, !.wpos = 0])))
    ELSE CASE args.variant = "basic" ->
                [w EXCEPT !.buf = << >>, !.wpos = 0, !.pc = "count"]
           [] args.variant = "fixed" -> [w EXCEPT !.wpos = 0, !.pc = "count"]
           [] args.variant = "ultra" -> [w EXCEPT !.wpos = 0, !.pc = "tail"]

\* A variant whose guard is not dropped after the write: the lock stays held.
WorkerWriteKeepingLock(t) ==
    /\ cpc = "running"
    /\ workers[t].pc = "write"
    /\ sink' = sink \o workers[t].buf
    /\ workers' = [workers EXCEPT ![t] = AfterWrite(@)]
    /\ UNCHANGED << args, cpc, threads, total, effective_total, start_index,
                    sinkLock, poisoned, outCreated, flushCount, memory_storage,
                    produced, resume_counter, ckptFile, ckptWrites, ckptFailed,
                    summary, faults, wfailed, run, history, codec >>

\* w.write_all(&buf) under the lock.  The writer takes the bytes in order but
\* not in one step: the model hands over the first byte, then the rest, and
\* the guard is dropped after the last byte.
WorkerWrite(t) ==
    /\ cpc = "running"
    /\ workers[t].pc = "write"
    /\ LET w == workers[t]
       IN  IF w.wpos = 0 /\ Len(w.buf) > 1
           THEN /\ sink' = Append(sink, w.buf[1])
                /\ workers' = [workers EXCEPT ![t].wpos = 1]
                /\ UNCHANGED sinkLock
           ELSE /\ sink' = sink \o SubSeq(w.buf, w.wpos + 1, Len(w.buf))
                /\ workers' = [workers EXCEPT ![t] = AfterWrite(w)]
                /\ sinkLock' = FALSE
    /\ UNCHANGED << args, cpc, threads, total, effective_total, start_index,
                    poisoned, outCreated, flushCount, memory_storage, produced,
                    resume_counter, ckptFile, ckptWrites, ckptFailed, summary, faults,
                    wfailed, run, history, codec >>

\* write_all returns an error and the writer takes none of the buffer.
\* basic and ultra drop the error (let _ =); fixed's expect panics, which
\* poisons the mutex as the guard is dropped.
WorkerWriteFail(t) ==
    /\ cpc = "running"
    /\ workers[t].pc = "write"
    /\ workers[t].wpos = 0
    /\ faults > 0
    /\ faults' = faults - 1
    /\ wfailed' = TRUE
    /\ sinkLock' = FALSE
    /\ IF args.variant = "fixed"
       THEN /\ workers' = [workers EXCEPT ![t].pc = "panicked"]
            /\ poisoned' = TRUE
       ELSE /\ workers' = [workers EXCEPT ![t] = AfterWrite(@)]
            /\ UNCHANGED poisoned
    /\ UNCHANGED << args, cpc, threads, total, effective_total, start_index,
                    outCreated, sink, flushCount, memory_storage, produced,
                    resume_counter, ckptFile, ckptWrites, ckptFailed, summary, run,
                    history, codec >>

\* fixed, after a flush inside the loop: resume_counter.fetch_add(1), then
\* the odometer.
WorkerPost(t) ==
    /\ cpc = "running"
    /\ workers[t].pc = "post"
    /\ resume_counter' = resume_counter + 1
    /\ workers' = [workers EXCEPT ![t] = Settle(Advance(@))]
    /\ UNCHANGED << args, cpc, threads, total, effective_total, start_index,
                    sinkLock, poisoned, outCreated, sink, flushCount,
                    memory_storage, produced, ckptFile, ckptWrites, ckptFailed, summary,
                    faults, wfailed, run, history, codec >>

\* A variant that appends the thread's collection last element first.
WorkerExtendReversed(t) ==
    /\ cpc = "running"
    /\ workers[t].pc = "extend"
    /\ LET mem == workers[t].mem
       IN  memory_storage' =
               memory_storage \o [k \in 1..Len(mem) |-> mem[Len(mem) + 1 - k]]
    /\ workers' = [workers EXCEPT ![t].mem = << >>,
                     ![t].pc = IF args.variant = "ultra" THEN "tail" ELSE "count"]
    /\ UNCHANGED << args, cpc, threads, total, effective_total, start_index,
                    sinkLock, poisoned, outCreated, sink, flushCount, produced,
                    resume_counter, ckptFile, ckptWrites, ckptFailed, summary, faults,
                    wfailed, run, history, codec >>

\* memory mode: storage.lock(), storage.extend(local_memory).
WorkerExtend(t) ==
    /\ cpc = "running"
    /\ workers[t].pc = "extend"
    /\ memory_storage' = memory_storage \o workers[t].mem
    /\ workers' = [workers EXCEPT ![t].mem = << >>,
                     ![t].pc = IF args.variant = "ultra" THEN "tail" ELSE "count"]
    /\ UNCHANGED << args, cpc, threads, total, effective_total, start_index,
                    sinkLock, poisoned, outCreated, sink, flushCount, produced,
                    resume_counter, ckptFile, ckptWrites, ckptFailed, summary, faults,
                    wfailed, run, history, codec >>

\* A variant whose last fetch_add adds all the thread has generated, the
\* batches it has added before included.
WorkerTailAddingAll(t) ==
    /\ cpc = "running"
    /\ workers[t].pc = "tail"
    /\ resume_counter' = resume_counter + workers[t].local_count
    /\ workers' = [workers EXCEPT ![t].pc = "count"]
    /\ UNCHANGED << args, cpc, threads, total, effective_total, start_index,
                    sinkLock, poisoned, outCreated, sink, flushCount,
                    memory_storage, produced, ckptFile, ckptWrites, ckptFailed,
                    summary, faults, wfailed, run, history, codec >>

\* ultra: if progress_acc > 0 { resume_counter.fetch_add(progress_acc) }
WorkerTail(t) ==
    /\ cpc = "running"
    /\ workers[t].pc = "tail"
    /\ resume_counter' = resume_counter + workers[t].progress_acc
    /\ workers' = [workers EXCEPT ![t].pc = "count"]
    /\ UNCHANGED << args, cpc, threads, total, effective_total, start_index,
                    sinkLock, poisoned, outCreated, sink, flushCount,
                    memory_storage, produced, ckptFile, ckptWrites, ckptFailed, summary,
                    faults, wfailed, run, history, codec >>

\* A variant that adds one more than the thread has generated.
WorkerProducedOneMore(t) ==
    /\ cpc = "running"
    /\ workers[t].pc = "count"
    /\ produced' = produced + workers[t].local_count + 1
    /\ workers' = [workers EXCEPT ![t].pc = "done"]
    /\ UNCHANGED << args, cpc, threads, total, effective_total, start_index,
                    sinkLock, poisoned, outCreated, sink, flushCount,
                    memory_storage, resume_counter, ckptFile, ckptWrites, ckptFailed,
                    summary, faults, wfailed, run, history, codec >>

\* produced.fetch_add(local_count); the thread ends.
WorkerProduced(t) ==
    /\ cpc = "running"
    /\ workers[t].pc = "count"
    /\ produced' = produced + workers[t].local_count
    /\ workers' = [workers EXCEPT ![t].pc = "done"]
    /\ UNCHANGED << args, cpc, threads, total, effective_total, start_index,
                    sinkLock, poisoned, outCreated, sink, flushCount,
                    memory_storage, resume_counter, ckptFile, ckptWrites, ckptFailed,
                    summary, faults, wfailed, run, history, codec >>

(***************************************************************************)
(* main after the spawn loop: the joins, the flush, the checkpoint, the    *)
(* report.                                                                 *)
(***************************************************************************)
\* A variant that goes on without waiting for the threads.
JoinWithoutWaiting ==
    /\ cpc = "running"
    /\ cpc' = "joined"
    /\ UNCHANGED << args, threads, total, effective_total, start_index,
                    workers, sinkLock, poisoned, outCreated, sink, flushCount,
                    memory_storage, produced, resume_counter, ckptFile,
                    ckptWrites, ckptFailed, summary, faults, wfailed, run, history, codec >>

\* for h in handles { h.join() }: every thread has ended.
Join ==
    /\ cpc = "running"
    /\ \A t \in DOMAIN workers : workers[t].pc = "done"
    /\ cpc' = "joined"
    /\ UNCHANGED << args, threads, total, effective_total, start_index,
                    workers, sinkLock, poisoned, outCreated, sink, flushCount,
                    memory_storage, produced, resume_counter, ckptFile,
                    ckptWrites, ckptFailed, summary, faults, wfailed, run, history, codec >>

\* h.join().expect("Thread panicked"): main panics at the first handle, in
\* spawn order, whose thread panicked; the process ends with it.
JoinPanic ==
    /\ cpc = "running"
    /\ \E t \in DOMAIN workers :
         /\ workers[t].pc = "panicked"
         /\ \A u \in 1..(t - 1) : workers[u].pc = "done"
    /\ cpc' = "panic"
    /\ UNCHANGED << args, threads, total, effective_total, start_index,
                    workers, sinkLock, poisoned, outCreated, sink, flushCount,
                    memory_storage, produced, resume_counter, ckptFile,
                    ckptWrites, ckptFailed, summary, faults, wfailed, run, history, codec >>

\* The writer's flush, when there is a writer.
FlushSink ==
    /\ cpc = "joined"
    /\ flushCount' = IF outCreated THEN flushCount + 1 ELSE flushCount
    /\ cpc' = "flushed"
    /\ UNCHANGED << args, threads, total, effective_total, start_index,
                    workers, sinkLock, poisoned, outCreated, sink,
                    memory_storage, produced, resume_counter, ckptFile,
                    ckptWrites, ckptFailed, summary, faults, wfailed, run, history, codec >>

\* std::fs::write(resume, resume_counter.load().to_string())
SaveCheckpoint ==
    /\ cpc = "flushed"
    /\ IF args.resume
       THEN /\ ckptFile' = FileOf(to_string(resume_counter))
            /\ ckptWrites' = ckptWrites + 1
            /\ UNCHANGED ckptFailed
       ELSE UNCHANGED << ckptFile, ckptWrites, ckptFailed >>
    /\ cpc' = "saved"
    /\ UNCHANGED << args, threads, total, effective_total, start_index,
                    workers, sinkLock, poisoned, outCreated, sink, flushCount,
                    memory_storage, produced, resume_counter, summary, faults,
                    wfailed, run, history, codec >>

\* std::fs::write returns an error: the file is as it was (it could not be
\* opened) or is left truncated (it was opened, the write failed).  ultra
\* drops the error (let _ =); fixed's expect panics and main ends.
SaveCheckpointFail ==
    /\ cpc = "flushed"
    /\ args.resume
    /\ faults > 0
    /\ faults' = faults - 1
    /\ ckptWrites' = ckptWrites + 1
    /\ ckptFailed' = TRUE
    /\ ckptFile' \in {ckptFile, FileOf(<< >>)}
    /\ cpc' = IF args.variant = "fixed" THEN "panic" ELSE "saved"
    /\ UNCHANGED << args, threads, total, effective_total, start_index,
                    workers, sinkLock, poisoned, outCreated, sink, flushCount,
                    memory_storage, produced, resume_counter, summary, wfailed,
                    run, history, codec >>

RECURSIVE SumCounts(_, _)
SumCounts(ws, n) == IF n = 0 THEN 0 ELSE ws[n].local_count + SumCounts(ws, n - 1)

\* The count of the report: produced.load() in fixed and ultra, the sum of
\* the joined threads' counts in basic.
Report ==
    /\ cpc = "saved"
    /\ summary' = IF args.variant = "basic"
                  THEN Some(SumCounts(workers, Len(workers)))
                  ELSE Some(produced)
    /\ cpc' = "reported"
    /\ UNCHANGED << args, threads, total, effective_total, start_index,
                    workers, sinkLock, poisoned, outCreated, sink, flushCount,
                    memory_storage, produced, resume_counter, ckptFile,
                    ckptWrites, ckptFailed, faults, wfailed, run, history, codec >>

(***************************************************************************)
(* The lines of a byte stream.                                             *)
(***************************************************************************)
RECURSIVE split_lines(_, _, _)
split_lines(bytes, cur, acc) ==
    IF bytes = << >> THEN [lines |-> acc, rest |-> cur]
    ELSE IF Head(bytes) = LF THEN split_lines(Tail(bytes), << >>, Append(acc, cur))
    ELSE split_lines(Tail(bytes), Append(cur, Head(bytes)), acc)

\* The complete lines of the stream, without their line feeds, in order.
LinesOf(bytes) == split_lines(bytes, << >>, << >>).lines
\* The bytes after the last line feed.
RestOf(bytes) == split_lines(bytes, << >>, << >>).rest

Range(f) == {f[i] : i \in DOMAIN f}

\* How often each value occurs in a sequence.
BagOf(seq) == [v \in Range(seq) |-> Cardinality({i \in DOMAIN seq : seq[i] = v})]

(***************************************************************************)
(* The program is started again over the same checkpoint file, with the    *)
(* same arguments except for the limit, which is left out.  Runs whose     *)
(* checkpoint write failed are not followed by another run.                *)
(***************************************************************************)
\* The combinations this run has put out: the lines of the output stream,
\* or the shared collection of memory mode.
Emitted ==
    IF args.mode = "memory" THEN BagOf(memory_storage) ELSE BagOf(LinesOf(sink))

RunRecord ==
    [args |-> args, outcome |-> cpc, start_index |-> start_index,
     effective_total |-> effective_total, total |-> total,
     lines |-> Emitted, wfailed |-> wfailed, ckptFailed |-> ckptFailed]

Rerun ==
    /\ cpc \in Terminal
    /\ run < MaxRuns
    /\ args.resume
    /\ ~ckptFailed
    /\ PlannedWork([args EXCEPT !.limit = None], ckptFile) <= MaxWork
    /\ history' = Append(history, RunRecord)
    /\ run' = run + 1
    /\ args' = [args EXCEPT !.limit = None]
    /\ cpc' = "start"
    /\ threads' = args.threads
    /\ total' = None
    /\ effective_total' = 0
    /\ start_index' = 0
    /\ workers' = << >>
    /\ sinkLock' = FALSE
    /\ poisoned' = FALSE
    /\ outCreated' = FALSE
    /\ sink' = << >>
    /\ flushCount' = 0
    /\ memory_storage' = << >>
    /\ produced' = 0
    /\ resume_counter' = 0
    /\ ckptWrites' = 0
    /\ ckptFailed' = FALSE
    /\ summary' = None
    /\ wfailed' = FALSE
    /\ UNCHANGED << ckptFile, faults, codec >>

(***************************************************************************)
(* The partition on its own: main right after its validation, for more     *)
(* threads and more remaining work than a whole run is modelled with, and  *)
(* the one step that partitions and spawns.                                *)
(***************************************************************************)
PartArgSets ==
    { a \in [variant : Variants, base : {MaxBase}, length : {MaxLen},
             threads : 0..PartMaxThreads,
             limit : {None} \cup {Some(l) : l \in 1..PartMaxLimit},
             mode : Modes, resume : BOOLEAN, batch : {FlushBytes}] :
        a.variant = "basic" => (a.mode = "stream" /\ ~a.resume) }

PartFiles == {NoFile} \cup {FileOf(to_string(n)) : n \in 0..PartMaxResume}

InitPartition ==
    /\ args \in PartArgSets
    /\ ckptFile \in PartFiles
    /\ ~args.resume => ckptFile = NoFile
    /\ configure(args, ckptFile).outcome = "configured"
    /\ cpc = "configured"
    /\ threads = configure(args, ckptFile).threads
    /\ total = configure(args, ckptFile).total
    /\ effective_total = configure(args, ckptFile).effective_total
    /\ start_index = configure(args, ckptFile).start_index
    /\ faults = 0
    /\ Untouched
    /\ codec = CodecOff

(***************************************************************************)
(* The codec functions on their own: index_to_digits applied to an index   *)
(* of the space, then odometer_increment applied again and again, up to    *)
(* and including the call that wraps.                                      *)
(***************************************************************************)
NoArgs == [variant |-> "basic", base |-> 0, length |-> 0, threads |-> 0,
           limit |-> None, mode |-> "stream", resume |-> FALSE,
           batch |-> FlushBytes]

NoRun ==
    /\ args = NoArgs
    /\ ckptFile = NoFile
    /\ faults = 0
    /\ cpc = "off"
    /\ threads = 0
    /\ total = None
    /\ effective_total = 0
    /\ start_index = 0
    /\ Untouched

InitCodec ==
    /\ NoRun
    /\ \E v \in Variants, b \in 1..CodecMaxBase, n \in 1..CodecMaxLen :
         \E s \in 0..(b ^ n - 1) :
            codec = [pc |-> "input", variant |-> v, base |-> b, len |-> n,
                     index |-> s, k |-> 0, digits |-> << >>,
                     last |-> FALSE, wraps |-> 0]

CodecEncode ==
    /\ codec.pc = "input"
    /\ codec' = [codec EXCEPT
                   !.digits = index_to_digits(codec.index, codec.base, codec.len),
                   !.pc = "ready"]
    /\ UNCHANGED runVars

CodecIncrement ==
    /\ codec.pc = "ready"
    /\ codec.index + codec.k < codec.base ^ codec.len
    /\ LET r == odometer_increment(codec.variant, codec.digits, codec.base)
       IN  codec' = [codec EXCEPT !.digits = r.digits, !.k = @ + 1,
                                  !.last = r.wrapped,
                                  !.wraps = @ + (IF r.wrapped THEN 1 ELSE 0)]
    /\ UNCHANGED runVars

NextCodec == CodecEncode \/ CodecIncrement

(***************************************************************************)
(* generate_combo_fast applied to every small digit vector, on an empty     *)
(* buffer and on one that holds a line already.                            *)
(***************************************************************************)
RenderDigits == UNION {[1..n -> 0..(RenderBase - 1)] : n \in 1..RenderMaxLen}

InitRender ==
    /\ NoRun
    /\ \E d \in RenderDigits, o \in {<< >>, << 97, LF >>} :
         codec = [pc |-> "digits", digits |-> d, before |-> o, out |-> o]

RenderFast ==
    /\ codec.pc = "digits"
    /\ codec' = [codec EXCEPT
                   !.out = generate_combo_fast(codec.digits, Charset(RenderBase), @),
                   !.pc = "rendered"]
    /\ UNCHANGED runVars

(***************************************************************************)
(* The start of a run over every small checkpoint file: the resume index   *)
(* main reads, and the threads it spawns from it.                          *)
(***************************************************************************)
\* Bytes of a checkpoint file: digits, signs, white space, a letter and a
\* byte that is not UTF-8.
ResumeBytes == {48, 50, 57, 43, 45, 32, 10, 120, 255}

ResumeFiles ==
    {NoFile} \cup
    {FileOf(text) : text \in UNION {[1..n -> ResumeBytes] : n \in 0..ResumeMaxText}}

ResumeArgSets ==
    { a \in [variant : Variants, base : {2}, length : {2},
             threads : {1, MaxThreads}, limit : {None, Some(MaxLimit)},
             mode : {"stream", "dry"}, resume : BOOLEAN,
             batch : {FlushBytes}] :
        a.variant = "basic" => (a.mode = "stream" /\ ~a.resume) }

InitResume ==
    /\ args \in ResumeArgSets
    /\ ckptFile \in ResumeFiles
    /\ faults = 0
    /\ cpc = "start"
    /\ threads = args.threads
    /\ total = None
    /\ effective_total = 0
    /\ start_index = 0
    /\ Untouched
    /\ codec = CodecOff

NextResume ==
    \/ Configure
    \/ Launch

Next ==
    \/ Configure
    \/ Launch
    \/ \E t \in DOMAIN workers : WorkerIter(t)
    \/ \E t \in DOMAIN workers : WorkerLock(t)
    \/ \E t \in DOMAIN workers : WorkerWrite(t)
    \/ \E t \in DOMAIN workers : WorkerWriteFail(t)
    \/ \E t \in DOMAIN workers : WorkerPost(t)
    \/ \E t \in DOMAIN workers : WorkerExtend(t)
    \/ \E t \in DOMAIN workers : WorkerTail(t)
    \/ \E t \in DOMAIN workers : WorkerProduced(t)
    \/ Join
    \/ JoinPanic
    \/ FlushSink
    \/ SaveCheckpoint
    \/ SaveCheckpointFail
    \/ Report
    \/ Rerun

\* Whole runs of the program, one after the other over a checkpoint file.
Spec == Init /\ [][Next]_vars

(***************************************************************************)
(* One run in which every write succeeds, under a fair scheduler: the main *)
(* thread and every spawned thread take their next step when they can.     *)
(***************************************************************************)
\* Arguments that pass the validation, with and without a limit.
LiveArgSets ==
    { a \in ArgSets : /\ a.base >= 2
                      /\ a.length \in 1..MaxLen
                      /\ a.threads >= 1
                      /\ a.limit \in {None, Some(MaxLimit)} }

InitLive ==
    /\ args \in LiveArgSets
    /\ ckptFile \in {NoFile, FileOf(to_string(1))}
    /\ ~args.resume => ckptFile = NoFile
    /\ PlannedWork(args, ckptFile) <= MaxWork
    /\ faults = 0
    /\ cpc = "start"
    /\ threads = args.threads
    /\ total = None
    /\ effective_total = 0
    /\ start_index = 0
    /\ Untouched
    /\ codec = CodecOff

\* The steps of one spawned thread.
WorkerStep(t) ==
    /\ t \in DOMAIN workers
    /\ \/ WorkerIter(t)
       \/ WorkerLock(t)
       \/ WorkerWrite(t)
       \/ WorkerPost(t)
       \/ WorkerExtend(t)
       \/ WorkerTail(t)
       \/ WorkerProduced(t)

\* The steps of the main thread.
MainStep ==
    \/ Configure
    \/ Launch
    \/ Join
    \/ FlushSink
    \/ SaveCheckpoint
    \/ Report

NextLive ==
    \/ MainStep
    \/ \E t \in 1..MaxThreads : WorkerStep(t)

\* OS threads: a thread that can run is not held back for ever.
Fairness ==
    /\ WF_vars(MainStep)
    /\ \A t \in 1..MaxThreads : WF_vars(WorkerStep(t))

SpecLive == InitLive /\ [][NextLive]_vars /\ Fairness

\* The partition and spawn step from every validated state.
SpecPartition == InitPartition /\ [][Launch]_vars

\* The codec functions applied to every index of every small space.
SpecCodec == InitCodec /\ [][NextCodec]_vars

\* generate_combo_fast over every small digit vector.
SpecRender == InitRender /\ [][RenderFast]_vars

\* The start of a run over every small checkpoint file.
SpecResume == InitResume /\ [][NextResume]_vars

(***************************************************************************)
(* What the claims speak of.                                               *)
(***************************************************************************)
\* The most-significant-first mixed-radix sum of a digit vector.
RECURSIVE FromDigits(_, _)
FromDigits(digits, base) ==
    IF digits = << >> THEN 0
    ELSE FromDigits(SubSeq(digits, 1, Len(digits) - 1), base) * base
         + digits[Len(digits)]

\* The combination of an index: alphabet[d] for each digit d of
\* to_digits(index), in digit order.
ComboOfIndex(i) ==
    LET d == index_to_digits(i, args.base, args.length)
    IN  [p \in 1..args.length |-> Charset(args.base)[d[p] + 1]]

\* The combinations of the indices lo .. hi - 1, each as often as it is due.
ExpectedBag(lo, hi) == BagOf([k \in 1..(hi - lo) |-> ComboOfIndex(lo + k - 1)])

BagPlus(a, b) ==
    [v \in DOMAIN a \cup DOMAIN b |->
        (IF v \in DOMAIN a THEN a[v] ELSE 0) + (IF v \in DOMAIN b THEN b[v] ELSE 0)]

\* The index a complete line of the stream stands for.
LineIndex(line) == FromDigits([p \in 1..Len(line) |-> line[p] - 97], args.base)

\* The indices of the stream's complete lines, in stream order.
SinkIndices ==
    LET lines == LinesOf(sink)
    IN  [k \in DOMAIN lines |-> LineIndex(lines[k])]

WorkerRange(t) == workers[t].start .. (workers[t].start + workers[t].count - 1)

Joined == cpc \in {"joined", "flushed", "saved", "reported"}

(***************************************************************************)
(* C1.  For every requested thread count >= 1 and every remaining >= 1,    *)
(* the ranges of the spawned threads are non-empty and pairwise disjoint,  *)
(* their union is exactly start_index .. effective_total - 1, and there    *)
(* are at most `remaining` threads.                                        *)
(***************************************************************************)
C1_PartitionIsDisjointCover ==
    (cpc = "running" /\ args.threads >= 1) =>
        /\ \A t \in DOMAIN workers : workers[t].count >= 1
        /\ \A t, u \in DOMAIN workers :
               t # u => WorkerRange(t) \cap WorkerRange(u) = {}
        /\ UNION {WorkerRange(t) : t \in DOMAIN workers}
               = start_index .. (effective_total - 1)
        /\ Len(workers) <= effective_total - start_index

\* Three threads of unequal shares, started from a resume index.
C1_Witness ==
    /\ cpc = "running"
    /\ args.threads >= 1
    /\ start_index > 0
    /\ Len(workers) = 3
    /\ workers[1].count > workers[3].count

(***************************************************************************)
(* C5.  For base >= 2: k calls of odometer_increment on                    *)
(* index_to_digits(s), with s + k < total, give index_to_digits(s + k) and *)
(* every call returns false; the call on index_to_digits(total - 1) gives  *)
(* the all-zero vector and returns true.                                   *)
(***************************************************************************)
C5_OdometerFollowsIndex ==
    (codec.pc = "ready" /\ codec.base >= 2) =>
        LET tot == codec.base ^ codec.len
            at  == codec.index + codec.k
        IN  /\ at < tot =>
                 /\ codec.digits = index_to_digits(at, codec.base, codec.len)
                 /\ codec.wraps = 0
                 /\ codec.last = FALSE
            /\ at = tot =>
                 /\ codec.digits = [p \in 1..codec.len |-> 0]
                 /\ codec.last = TRUE
                 /\ codec.wraps = 1

\* Several increments with carries, ending in the wrap.
C5_Witness ==
    /\ codec.pc = "ready"
    /\ codec.base >= 2
    /\ codec.len >= 2
    /\ codec.index > 0
    /\ codec.k >= 3
    /\ codec.index + codec.k = codec.base ^ codec.len
    /\ codec.last

(***************************************************************************)
(* C6.  For every index of the space, index_to_digits gives `length`       *)
(* digits, each in 0 .. base - 1, whose most-significant-first sum is the  *)
(* index; index 0 gives all zeros and total - 1 gives all base - 1.        *)
(***************************************************************************)
C6_DigitsRoundTrip ==
    (codec.pc = "ready" /\ codec.k = 0 /\ codec.base >= 2) =>
        /\ Len(codec.digits) = codec.len
        /\ \A p \in 1..codec.len : codec.digits[p] \in 0..(codec.base - 1)
        /\ FromDigits(codec.digits, codec.base) = codec.index
        /\ codec.index = 0 => codec.digits = [p \in 1..codec.len |-> 0]
        /\ codec.index = codec.base ^ codec.len - 1
              => codec.digits = [p \in 1..codec.len |-> codec.base - 1]

\* An index inside the space whose digits differ from one another.
C6_Witness ==
    /\ codec.pc = "ready"
    /\ codec.k = 0
    /\ codec.base >= 3
    /\ codec.len >= 2
    /\ codec.digits[1] > codec.digits[codec.len]
    /\ codec.digits[codec.len] > 0

(***************************************************************************)
(* C2.  A streaming run that completes with no write failure leaves in the *)
(* stream exactly the combinations of the indices                          *)
(* start_index .. effective_total - 1, each once and each a whole line of  *)
(* `length` characters, where effective_total = min(limit, total).         *)
(***************************************************************************)
C2_StreamHoldsExactlyTheRange ==
    (cpc = "reported" /\ args.mode = "stream" /\ ~wfailed) =>
        /\ effective_total = (IF IsSome(args.limit)
                              THEN Min(Unwrap(args.limit), Unwrap(total))
                              ELSE Unwrap(total))
        /\ RestOf(sink) = << >>
        /\ Len(LinesOf(sink)) = effective_total - start_index
        /\ \A k \in DOMAIN LinesOf(sink) : Len(LinesOf(sink)[k]) = args.length
        /\ BagOf(LinesOf(sink)) = ExpectedBag(start_index, effective_total)

\* Two threads have streamed a limited range from a resume index.
C2_Witness ==
    /\ cpc = "reported"
    /\ args.mode = "stream"
    /\ ~wfailed
    /\ Len(workers) >= 2
    /\ start_index > 0
    /\ IsSome(args.limit)
    /\ effective_total - start_index >= 2
    /\ Len(LinesOf(sink)) = effective_total - start_index

(***************************************************************************)
(* C3.  The lines of the stream that belong to one thread's range stand in *)
(* strictly increasing index order, and with no write failure they are     *)
(* start, start + 1, ... without a gap; the blocks of different threads    *)
(* stand in any order.                                                     *)
(***************************************************************************)
C3_PerWorkerOrder ==
    LET idx == SinkIndices
    IN  \A t \in DOMAIN workers :
            LET mine == {k \in DOMAIN idx : idx[k] \in WorkerRange(t)}
            IN  /\ \A i, j \in mine : i < j => idx[i] < idx[j]
                /\ ~wfailed =>
                     {idx[k] : k \in mine}
                         = workers[t].start .. (workers[t].start + Cardinality(mine) - 1)

\* A line of a later range stands before a line of an earlier range.
C3_Witness ==
    /\ Joined
    /\ Len(workers) >= 2
    /\ \E i, j \in DOMAIN SinkIndices :
          /\ i < j
          /\ SinkIndices[i] \in WorkerRange(2)
          /\ SinkIndices[j] \in WorkerRange(1)

(***************************************************************************)
(* C4.  At most one thread holds the lock of the stream; what the stream   *)
(* holds is whole lines, but for the block a lock holder is writing; and   *)
(* the lines of one flushed block stand together, with no other thread's   *)
(* bytes among them.                                                       *)
(***************************************************************************)
Writers == {t \in DOMAIN workers : workers[t].pc = "write"}

\* The lines of one flush of a thread's loop.
LinesPerFlush ==
    IF write_threshold = 0 THEN 1
    ELSE (write_threshold + args.length) \div (args.length + 1)

BlockOf(i) ==
    LET t == CHOOSE u \in DOMAIN workers : i \in WorkerRange(u)
    IN  << t, (i - workers[t].start) \div LinesPerFlush >>

C4_SinkIsExclusive ==
    LET lines == LinesOf(sink)
        rest  == RestOf(sink)
        idx   == SinkIndices
    IN  /\ Cardinality(Writers) <= 1
        /\ Writers # {} <=> sinkLock
        /\ LET mid == {t \in Writers : workers[t].wpos > 0}
           IN  IF mid = {} THEN rest = << >>
               ELSE \E t \in mid : rest = << workers[t].buf[1] >>
        /\ \A k \in DOMAIN lines :
              /\ Len(lines[k]) = args.length
              /\ \A p \in 1..args.length : lines[k][p] \in Range(Charset(args.base))
        /\ \A k \in DOMAIN idx : \E t \in DOMAIN workers : idx[k] \in WorkerRange(t)
        /\ \A i, j \in DOMAIN idx :
              (i < j /\ BlockOf(idx[i]) = BlockOf(idx[j]))
                  => \A m \in i..j : BlockOf(idx[m]) = BlockOf(idx[i])

\* One thread is in the middle of its block while another waits for the lock.
C4_Witness ==
    \E t, u \in DOMAIN workers :
        /\ workers[t].pc = "write"
        /\ workers[t].wpos > 0
        /\ workers[u].pc = "lock"
        /\ RestOf(sink) = << workers[t].buf[1] >>

(***************************************************************************)
(* C9.  When there is nothing to enumerate (effective_total = 0, or the    *)
(* resume index is at or past effective_total) the run ends with nothing   *)
(* produced, no thread spawned, the output never created and the           *)
(* checkpoint file as it was.                                              *)
(***************************************************************************)
\* The claim's condition, from the arguments and the checkpoint file.
NothingToDo ==
    LET tot == PowSat(args.base, args.length)
        eff == IF IsSome(args.limit) THEN Min(Unwrap(args.limit), tot) ELSE tot
        from == IF args.resume /\ ckptFile.exists
                THEN unwrap_or(parse_u64(trim(ckptFile.text)), 0) ELSE 0
    IN  /\ args.length > 0
        /\ args.base >= 2
        /\ tot <= U64_MAX
        /\ eff = 0 \/ from >= eff

C9_NothingToDo ==
    /\ (cpc \in {"exit_nothing", "exit_resume"}) =>
          /\ workers = << >>
          /\ ~outCreated
          /\ sink = << >>
          /\ produced = 0
          /\ ckptWrites = 0
    /\ (NothingToDo /\ ckptWrites = 0 /\ cpc # "start") =>
          cpc \in {"exit_nothing", "exit_resume"}

\* The checkpoint is at the end of the range already.
C9_Witness ==
    /\ cpc = "exit_resume"
    /\ NothingToDo
    /\ start_index > 0
    /\ run = 1

(***************************************************************************)
(* C10.  pow_u64(base, length) is None exactly when base^length is above   *)
(* the 64-bit range and is the exact power otherwise; on None the run ends *)
(* before the output is created and before any thread is spawned.          *)
(***************************************************************************)
\* main has called pow_u64: the checks before the call have passed.
PowCalled ==
    /\ cpc # "start"
    /\ IF args.variant = "basic" THEN args.base >= 2
       ELSE args.length # 0 /\ args.base # 0

C10_PowExactOrNone ==
    PowCalled =>
        /\ total = None <=> PowSat(args.base, args.length) > U64_MAX
        /\ IsSome(total) => Unwrap(total) = PowSat(args.base, args.length)
        /\ total = None => (cpc = "exit_overflow" /\ ~outCreated /\ workers = << >>)

(***************************************************************************)
(* C8.  In every mode of a variant with a checkpoint, once all threads are *)
(* joined the resume counter is start_index plus the combinations produced *)
(* in the run, which is effective_total, and that is the value persisted.  *)
(***************************************************************************)
C8_CheckpointIsEffectiveTotal ==
    (args.variant # "basic" /\ Joined) =>
        /\ resume_counter = start_index + produced
        /\ resume_counter = effective_total
        /\ (args.resume /\ ~ckptFailed /\ cpc \in {"saved", "reported"}) =>
              ckptFile = FileOf(to_string(effective_total))

(***************************************************************************)
(* C7.  After a first run with a limit and a resume file has completed and *)
(* persisted its checkpoint L1, a second run with the same parameters and  *)
(* no limit emits exactly the indices L1 .. total - 1, and the two runs    *)
(* together emit every index of 0 .. total - 1 exactly once.               *)
(***************************************************************************)
\* The second run is over, after a first run that came to its report.
SecondRunOver ==
    /\ run = 2
    /\ args.mode # "dry"
    /\ cpc \in {"reported", "exit_resume"}
    /\ history[1].outcome = "reported"
    /\ ~history[1].ckptFailed
    /\ IsSome(history[1].args.limit)

ResumeIsExact ==
    /\ Emitted = ExpectedBag(history[1].effective_total, Unwrap(total))
    /\ history[1].start_index = 0 =>
          BagPlus(history[1].lines, Emitted) = ExpectedBag(0, Unwrap(total))

C11_WriteFailureTolerated ==
    wfailed =>
        /\ cpc # "panic"
        /\ \A t \in DOMAIN workers : workers[t].pc # "panicked"
        /\ Joined =>
              /\ \A t \in DOMAIN workers : workers[t].done = workers[t].count
              /\ produced = effective_total - start_index
        /\ cpc = "reported" =>
              /\ flushCount = 1
              /\ args.resume => ckptWrites = 1
              /\ summary = Some(effective_total - start_index)

(***************************************************************************)
(* C12.  The resume index read at startup is the decimal integer the       *)
(* checkpoint file holds; with no resume file configured, no file, an      *)
(* unreadable file or trimmed contents that are no unsigned 64-bit decimal *)
(* integer it is 0, and the run enumerates from index 0.                   *)
(***************************************************************************)
\* The value of a text of decimal digits, most significant first.
RECURSIVE DecimalValue(_)
DecimalValue(text) ==
    IF text = << >> THEN 0
    ELSE Min(DecimalValue(SubSeq(text, 1, Len(text) - 1)) * 10
             + (text[Len(text)] - 48), U64_MAX + 1)

\* The text without the white space around it.
Trimmed(text) ==
    LET inner == {p \in DOMAIN text : ~IsSpace(text[p])}
    IN  IF inner = {} THEN << >>
        ELSE SubSeq(text, CHOOSE p \in inner : \A q \in inner : p <= q,
                          CHOOSE p \in inner : \A q \in inner : p >= q)

\* The index the checkpoint file holds: 0 unless it is an unsigned decimal
\* integer of the 64-bit range.
HeldIndex ==
    LET t == Trimmed(ckptFile.text)
        d == IF t # << >> /\ t[1] = 43 THEN Tail(t) ELSE t
    IN  IF /\ args.resume
           /\ ckptFile.exists
           /\ \A p \in DOMAIN ckptFile.text : ckptFile.text[p] < 128
           /\ d # << >>
           /\ \A p \in DOMAIN d : d[p] \in 48..57
           /\ DecimalValue(d) <= U64_MAX
        THEN DecimalValue(d) ELSE 0

C12_ResumeIndexRead ==
    /\ cpc \in {"exit_resume", "configured", "running"} => start_index = HeldIndex
    /\ cpc = "running" =>
          /\ workers[1].start = HeldIndex
          /\ resume_counter = HeldIndex

\* A file that holds no integer: the run enumerates from 0.
C12_Witness ==
    /\ cpc = "running"
    /\ args.resume
    /\ ckptFile.exists
    /\ Len(ckptFile.text) >= 2
    /\ \E p \in DOMAIN ckptFile.text : ckptFile.text[p] = 120
    /\ workers[1].start = 0

(***************************************************************************)
(* C13.  When more threads are requested than elements remain (remaining   *)
(* >= 1), exactly `remaining` threads are spawned with one element each;   *)
(* no thread is ever spawned with no work.                                 *)
(***************************************************************************)
Remaining == effective_total - start_index

C13_OneElementEach ==
    cpc = "running" =>
        /\ \A t \in DOMAIN workers : workers[t].count >= 1
        /\ (Remaining >= 1 /\ args.threads > Remaining) =>
              /\ Len(workers) = Remaining
              /\ threads = Remaining
              /\ \A t \in DOMAIN workers : workers[t].count = 1

\* Four threads requested for three elements.
C13_Witness ==
    /\ cpc = "running"
    /\ args.threads = PartMaxThreads
    /\ Remaining = PartMaxThreads - 1
    /\ Len(workers) = Remaining
    /\ start_index > 0

(***************************************************************************)
(* C17.  When remaining >= the thread count, with base_share = remaining   *)
(* / threads and extra = remaining % threads: exactly `threads` threads    *)
(* are spawned, the first `extra` get base_share + 1 elements and the rest *)
(* base_share, the first range starts at start_index and every range       *)
(* starts where the one before ends, and two sizes differ by at most 1.    *)
(***************************************************************************)
C17_EvenSplit ==
    (cpc = "running" /\ args.threads >= 1 /\ Remaining >= args.threads) =>
        LET base_share == Remaining \div args.threads
            extra      == Remaining % args.threads
        IN  /\ Len(workers) = args.threads
            /\ \A t \in DOMAIN workers :
                  workers[t].count = base_share + (IF t <= extra THEN 1 ELSE 0)
            /\ workers[1].start = start_index
            /\ \A t \in 2..Len(workers) :
                  /\ workers[t].start = workers[t - 1].start + workers[t - 1].count
                  /\ workers[t].start > workers[t - 1].start
            /\ \A t, u \in DOMAIN workers :
                  workers[t].count - workers[u].count \in {-1, 0, 1}

\* Eight elements for three threads, from a resume index: 3, 3 and 2.
C17_Witness ==
    /\ cpc = "running"
    /\ args.threads = 3
    /\ start_index > 0
    /\ Remaining % 3 = 2
    /\ Len(workers) = 3
    /\ workers[2].count = workers[3].count + 1
    /\ workers[3].count >= 2

(***************************************************************************)
(* C14.  In dry-run mode no output is opened and no byte is written to     *)
(* any output, yet every thread advances its odometer through its whole    *)
(* range, and at the end the produced count is                             *)
(* effective_total - start_index.                                          *)
(***************************************************************************)
\* The digits of a thread that has done `done` iterations from its start.
DigitsAfter(w) ==
    index_to_digits((w.start + w.done) % PowSat(args.base, args.length),
                    args.base, args.length)

C14_DryRun ==
    args.mode = "dry" =>
        /\ ~outCreated
        /\ sink = << >>
        /\ flushCount = 0
        /\ ~sinkLock
        /\ memory_storage = << >>
        /\ \A t \in DOMAIN workers :
              /\ workers[t].buf = << >>
              /\ workers[t].mem = << >>
              /\ workers[t].pc \notin {"lock", "write", "extend"}
              /\ workers[t].digits = DigitsAfter(workers[t])
              /\ workers[t].local_count = workers[t].done
        /\ Joined =>
              /\ \A t \in DOMAIN workers : workers[t].done = workers[t].count
              /\ produced = effective_total - start_index
        /\ cpc = "reported" => summary = Some(effective_total - start_index)

\* Two threads have gone through the whole space, the second up to the wrap.
C14_Witness ==
    /\ args.mode = "dry"
    /\ cpc = "reported"
    /\ Len(workers) = 2
    /\ produced >= 3
    /\ workers[2].wraps = 1

(***************************************************************************)
(* C15.  In memory mode no output is opened; a thread collects its         *)
(* combinations locally and appends them to the shared collection in one   *)
(* step after its range, so that after the joins the collection holds one  *)
(* combination per index of start_index .. effective_total - 1, each       *)
(* thread's as one block in increasing index order.                        *)
(***************************************************************************)
\* The combinations of the first n indices of a thread's range, in order.
BlockPrefix(w, n) == [k \in 1..n |-> ComboOfIndex(w.start + k - 1)]

\* The threads that have appended their collection.
Merged == {t \in DOMAIN workers : workers[t].pc \in {"tail", "count", "done"}}

C15_MemoryMode ==
    args.mode = "memory" =>
        /\ ~outCreated
        /\ sink = << >>
        /\ flushCount = 0
        /\ \A t \in DOMAIN workers \ Merged :
              workers[t].mem = BlockPrefix(workers[t], workers[t].done)
        /\ Len(memory_storage) = Cardinality(UNION {WorkerRange(t) : t \in Merged})
        /\ \A t \in Merged :
              \E o \in 0..(Len(memory_storage) - workers[t].count) :
                  SubSeq(memory_storage, o + 1, o + workers[t].count)
                      = BlockPrefix(workers[t], workers[t].count)
        /\ Joined =>
              /\ Len(memory_storage) = effective_total - start_index
              /\ BagOf(memory_storage) = ExpectedBag(start_index, effective_total)

\* The second thread's block stands before the first's.
C15_Witness ==
    /\ args.mode = "memory"
    /\ Joined
    /\ Len(workers) = 2
    /\ workers[1].count >= 2
    /\ memory_storage[1] = ComboOfIndex(workers[2].start)
    /\ memory_storage[Len(memory_storage)] = ComboOfIndex(workers[2].start - 1)

(***************************************************************************)
(* C16.  Index order is lexicographic order over alphabet positions, the   *)
(* most significant digit first: for indices i < j of the space            *)
(* index_to_digits(i) precedes index_to_digits(j), and with one thread the *)
(* stream lists the combinations in increasing index order.                *)
(***************************************************************************)
LexLess(a, b) ==
    \E p \in 1..Len(a) : a[p] < b[p] /\ \A q \in 1..(p - 1) : a[q] = b[q]

C16_LexicographicOrder ==
    /\ cpc = "configured" =>
          \A i, j \in 0..(Unwrap(total) - 1) :
              i < j => LexLess(index_to_digits(i, args.base, args.length),
                               index_to_digits(j, args.base, args.length))
    /\ Len(workers) = 1 =>
          LET lines == LinesOf(sink)
          IN  /\ \A k \in 1..(Len(lines) - 1) :
                    /\ LineIndex(lines[k]) < LineIndex(lines[k + 1])
                    /\ LexLess(lines[k], lines[k + 1])
              /\ (cpc = "reported" /\ args.mode = "stream" /\ ~wfailed) =>
                    lines = [k \in 1..(effective_total - start_index) |->
                                ComboOfIndex(start_index + k - 1)]

\* Alphabet "ab", length 2, one thread: aa, ab, ba.
C16_Witness ==
    /\ cpc = "reported"
    /\ args.base = 2
    /\ args.length = 2
    /\ Len(workers) = 1
    /\ LinesOf(sink) = << <<97, 97>>, <<97, 98>>, <<98, 97>> >>

(***************************************************************************)
(* C18.  In a run that spawns threads main's steps are in order: spawn,    *)
(* join of all threads, one flush of the stream, one write of the          *)
(* checkpoint, the report; main neither flushes nor writes the checkpoint  *)
(* while a thread is still running.                                        *)
(***************************************************************************)
AllEnded == workers # << >> /\ \A t \in DOMAIN workers : workers[t].pc = "done"

\* What main has to flush and to persist: an output, a resume file.
FlushesDue == IF outCreated THEN 1 ELSE 0
WritesDue == IF args.resume THEN 1 ELSE 0

CoordinatorOrder ==
    /\ flushCount <= FlushesDue
    /\ ckptWrites <= WritesDue
    /\ (flushCount > 0 \/ ckptWrites > 0 \/ summary # None) => AllEnded
    /\ ckptWrites > 0 => flushCount = FlushesDue
    /\ summary # None => (flushCount = FlushesDue /\ ckptWrites = WritesDue)

CoordinatorStep ==
    run' = run =>
        /\ workers = << >> /\ workers' # << >> =>
              (flushCount = 0 /\ ckptWrites = 0 /\ summary = None)
        /\ flushCount' # flushCount =>
              /\ AllEnded
              /\ flushCount' = 1
              /\ UNCHANGED << workers, ckptWrites, summary >>
              /\ ckptWrites = 0
              /\ summary = None
        /\ ckptWrites' # ckptWrites =>
              /\ AllEnded
              /\ ckptWrites' = 1
              /\ flushCount = FlushesDue
              /\ UNCHANGED << workers, flushCount, summary >>
              /\ summary = None
        /\ summary' # summary =>
              /\ AllEnded
              /\ flushCount = FlushesDue
              /\ ckptWrites = WritesDue
              /\ UNCHANGED << workers, flushCount, ckptWrites >>

C18_CoordinatorOrder == [](CoordinatorOrder) /\ [][CoordinatorStep]_vars

\* A streaming run with a resume file has come to its report.
C18_Witness ==
    /\ cpc = "reported"
    /\ Len(workers) = 2
    /\ flushCount = 1
    /\ ckptWrites = 1
    /\ summary # None

(***************************************************************************)
(* C19.  The shared produced counter never decreases, is at every state at *)
(* most the number of combinations the threads have generated so far,      *)
(* grows by each thread's range size, and after the joins is               *)
(* effective_total - start_index.                                          *)
(***************************************************************************)
RECURSIVE SumOver(_, _)
SumOver(f, S) ==
    IF S = {} THEN 0
    ELSE LET t == CHOOSE u \in S : TRUE IN f[t] + SumOver(f, S \ {t})

ProducedCounter ==
    /\ produced <= SumOver([t \in DOMAIN workers |-> workers[t].local_count],
                           DOMAIN workers)
    /\ produced = SumOver([t \in DOMAIN workers |-> workers[t].count],
                          {t \in DOMAIN workers : workers[t].pc = "done"})
    /\ Joined => produced = effective_total - start_index

ProducedStep ==
    (run' = run /\ workers # << >>) =>
        /\ produced' >= produced
        /\ \A t \in DOMAIN workers :
              (workers[t].pc # "done" /\ workers'[t].pc = "done")
                  => produced' = produced + workers[t].count

C19_ProducedCounter == [](ProducedCounter) /\ [][ProducedStep]_vars

\* One thread has added its count while another is still generating.
C19_Witness ==
    \E t, u \in DOMAIN workers :
        /\ workers[t].pc = "done"
        /\ workers[u].pc = "loop"
        /\ workers[u].local_count > 0
        /\ produced = workers[t].count

(***************************************************************************)
(* C20.  base >= 2 in every state in which a thread exists: every variant  *)
(* refuses to spawn threads for an alphabet of fewer than 2 bytes.         *)
(***************************************************************************)
C20_BaseAtLeastTwo == workers # << >> => args.base >= 2

(***************************************************************************)
(* C21.  A failure to write the checkpoint file at the end of a run does   *)
(* not abort the run: after the joins and the flush main still comes to    *)
(* its report, with the full produced count.                               *)
(***************************************************************************)
C21_CheckpointFailureTolerated ==
    ckptFailed =>
        /\ cpc \in {"saved", "reported"}
        /\ AllEnded
        /\ flushCount = FlushesDue
        /\ produced = effective_total - start_index
        /\ cpc = "reported" => summary = Some(effective_total - start_index)

\* The indices below the resume counter that no complete line of the output
\* stream stands for.
Unwritten ==
    LET written == Range(SinkIndices)
    IN  {i \in start_index..(effective_total - 1) :
            i < resume_counter /\ i \notin written}

\* The thread whose range holds index i has not come to generate it.
NotYetGenerated(i) ==
    \E t \in DOMAIN workers :
        i \in WorkerRange(t) /\ workers[t].start + workers[t].done <= i

(***************************************************************************)
(* C22.  While threads run, the resume counter is no lower bound of what   *)
(* the output holds: it is only from the join on that every index below    *)
(* the counter has been written (no write having failed).  Before the      *)
(* join, with two threads or more, the counter does exceed an index that   *)
(* is not in the output: C22_Witness.                                      *)
(***************************************************************************)
C22_CounterUnsafeBeforeJoin ==
    (args.mode = "stream" /\ outCreated /\ ~wfailed /\ Unwritten # {}) =>
        (cpc = "running" /\ ~AllEnded)

C22_Witness ==
    /\ cpc = "running"
    /\ Len(workers) >= 2
    /\ args.mode = "stream"
    /\ outCreated
    /\ ~wfailed
    /\ \E i \in Unwritten : NotYetGenerated(i)

(***************************************************************************)
(* C23.  For a digit vector of any length, 1 to 8 and longer,              *)
(* generate_combo_fast appends what the loop over the digits appends: the  *)
(* byte charset[d] of every digit d, in the order of the digits, then one  *)
(* line feed; what the buffer held before stays as it was.                 *)
(***************************************************************************)
C23_FastIsTheLoop ==
    codec.pc = "rendered" =>
        LET n == Len(codec.digits)
            before == Len(codec.before)
        IN  /\ Len(codec.out) = before + n + 1
            /\ \A p \in 1..before : codec.out[p] = codec.before[p]
            /\ \A p \in 1..n :
                 codec.out[before + p] = Charset(RenderBase)[codec.digits[p] + 1]
            /\ codec.out[before + n + 1] = LF
            /\ codec.out =
                 codec.before \o render_loop(codec.digits, Charset(RenderBase))

\* An unrolled arm and the loop arm have appended to a buffer that held a
\* line, for digits that are not a palindrome.
C23_Witness ==
    /\ codec.pc = "rendered"
    /\ Len(codec.digits) \in {8, RenderMaxLen}
    /\ codec.before # << >>
    /\ codec.digits[1] # codec.digits[Len(codec.digits)]

(***************************************************************************)
(* C24.  With a fair scheduler and writes that succeed, every run that     *)
(* spawns threads comes to its end: the lock is held by one writing thread *)
(* and given back after the write, every thread ends, and main reaches the *)
(* report.                                                                 *)
(***************************************************************************)
C24_Termination ==
    /\ [](sinkLock => Cardinality(Writers) = 1)
    /\ sinkLock ~> ~sinkLock
    /\ (cpc = "running") ~> (cpc = "reported" /\ AllEnded /\ ~sinkLock)

\* Two threads have written under the lock and the run is reported.
C24_Witness ==
    /\ cpc = "reported"
    /\ Len(workers) >= 2
    /\ args.mode = "stream"
    /\ \A t \in DOMAIN workers : workers[t].count > 0
    /\ Len(LinesOf(sink)) = effective_total - start_index
    /\ Len(LinesOf(sink)) >= 2

(***************************************************************************)
(* C25.  In every state of every spawned thread the digit vector has       *)
(* exactly `length` entries, and every entry is a digit: at least 0 and    *)
(* less than the base.                                                     *)
(***************************************************************************)
C25_DigitsInRange ==
    \A t \in DOMAIN workers :
        /\ Len(workers[t].digits) = args.length
        /\ \A p \in 1..Len(workers[t].digits) :
             workers[t].digits[p] \in 0..(args.base - 1)

\* A thread in the middle of its range that has carried into the position
\* before the last.
C25_Witness ==
    /\ cpc = "running"
    /\ args.base >= 2
    /\ args.length >= 2
    /\ \E t \in DOMAIN workers :
         /\ workers[t].done \in 1..(workers[t].count - 1)
         /\ workers[t].digits[args.length] = 0
         /\ workers[t].digits[args.length - 1] > 0

\* How often odometer_increment has returned true in this run.
RECURSIVE WrapsOf(_)
WrapsOf(t) == IF t = 0 THEN 0 ELSE workers[t].wraps + WrapsOf(t - 1)

(***************************************************************************)
(* C26.  In a whole run odometer_increment returns true at most once, and  *)
(* only in the last increment of the thread whose range ends at total,     *)
(* which takes effective_total = total.  Every increment that is followed  *)
(* by the rendering of another combination has returned false.             *)
(***************************************************************************)
C26_WrapsOnlyAtTheEnd ==
    /\ WrapsOf(Len(workers)) <= 1
    /\ \A t \in DOMAIN workers :
         workers[t].wraps > 0 =>
            /\ workers[t].done = workers[t].count
            /\ IsSome(total)
            /\ workers[t].start + workers[t].count = Unwrap(total)
            /\ effective_total = Unwrap(total)

\* A run of two threads over the whole space, with carries in it: the last
\* thread's last increment has returned true, the first thread is over
\* without one.
C26_Witness ==
    /\ Len(workers) >= 2
    /\ args.base >= 2
    /\ args.length >= 2
    /\ workers[Len(workers)].wraps = 1
    /\ workers[1].done = workers[1].count
    /\ workers[1].wraps = 0

\* The combinations the threads have generated so far.
Generated == SumCounts(workers, Len(workers))

(***************************************************************************)
(* C27.  The resume counter starts at the resume offset (start_index),     *)
(* never decreases whatever the order of the threads' updates, and in      *)
(* every state start_index <= counter <= start_index + (combinations       *)
(* generated so far by all threads) <= effective_total.                    *)
(***************************************************************************)
ResumeCounterBounds ==
    workers # << >> =>
        /\ start_index <= resume_counter
        /\ resume_counter <= start_index + Generated
        /\ start_index + Generated <= effective_total

ResumeCounterStep ==
    run' = run =>
        /\ (workers = << >> /\ workers' # << >>) => resume_counter' = start_index'
        /\ workers # << >> => resume_counter' >= resume_counter

C27_ResumeCounter == [](ResumeCounterBounds) /\ [][ResumeCounterStep]_vars

\* A resumed run of two threads: both have added to the counter, which is
\* behind what has been generated.
C27_Witness ==
    /\ cpc = "running"
    /\ start_index > 0
    /\ Len(workers) >= 2
    /\ \A t \in DOMAIN workers : workers[t].local_count > 0
    /\ resume_counter >= start_index + 2
    /\ resume_counter < start_index + Generated

\* A thread of a streaming run between two iterations of its loop, or past
\* the last one.
AtIterationEnd(w) == w.done > 0 /\ (w.pc = "loop" \/ w.done = w.count)

\* The thread is past its loop and its final flush.
PastFinalFlush(w) == w.done = w.count /\ w.pc \in {"tail", "count", "done"}

WholeLines(w) == Len(w.buf) % (args.length + 1) = 0

\* Every index of the thread's range stands in the output exactly once.
RangeWrittenOnce(t) ==
    LET idx == SinkIndices
    IN  \A i \in WorkerRange(t) :
            Cardinality({k \in DOMAIN idx : idx[k] = i}) = 1

\* Nothing is in the buffer only: the buffer is empty (basic clears it after
\* the final flush), or its lines are in the output.
NothingOnlyInBuffer(w) ==
    LET written == Range(LinesOf(sink))
    IN  \A line \in Range(LinesOf(w.buf)) : line \in written

(***************************************************************************)
(* C28 as stated.  In a streaming run, at the end of every iteration of a  *)
(* thread's loop its buffer is a whole number of lines (a multiple of      *)
(* length + 1 bytes) and shorter than the flush threshold; past the loop   *)
(* and the final flush every combination of the thread's range is in the   *)
(* output exactly once (no write having failed) and none is left in the    *)
(* buffer only.                                                            *)
(***************************************************************************)
C28_BufferBelowThreshold ==
    (args.mode = "stream" /\ outCreated /\ cpc # "panic") =>
        \A t \in DOMAIN workers :
            LET w == workers[t]
            IN  /\ AtIterationEnd(w) =>
                      (WholeLines(w) /\ Len(w.buf) < write_threshold)
                /\ (PastFinalFlush(w) /\ ~wfailed) =>
                      (RangeWrittenOnce(t) /\ NothingOnlyInBuffer(w))

(***************************************************************************)
(* C28, amended.  The same, with the buffer shorter than the threshold     *)
(* where the threshold is positive: fixed takes its threshold from         *)
(* --batch, and with --batch 0 the buffer is flushed in every iteration    *)
(* and is empty at its end, which is not shorter than 0.                   *)
(***************************************************************************)
C28_BufferBelowPositiveThreshold ==
    (args.mode = "stream" /\ outCreated /\ cpc # "panic") =>
        \A t \in DOMAIN workers :
            LET w == workers[t]
            IN  /\ AtIterationEnd(w) =>
                      /\ WholeLines(w)
                      /\ write_threshold > 0 => Len(w.buf) < write_threshold
                      /\ write_threshold = 0 => w.buf = << >>
                /\ (PastFinalFlush(w) /\ ~wfailed) =>
                      (RangeWrittenOnce(t) /\ NothingOnlyInBuffer(w))

\* A thread between two iterations with a line in its buffer, and another
\* past its final flush with its range in the output.
C28_Witness ==
    /\ args.mode = "stream"
    /\ cpc = "running"
    /\ ~wfailed
    /\ \E t, u \in DOMAIN workers :
         /\ workers[t].pc = "loop"
         /\ workers[t].done > 0
         /\ workers[t].buf # << >>
         /\ PastFinalFlush(workers[u])

\* main has panicked between File::create and the spawn loop: the division
\* of the partition.
PartitionPanicked == cpc = "panic" /\ outCreated /\ workers = << >>

(***************************************************************************)
(* C29.  A requested thread count of 0 is taken as 1 before the shares of  *)
(* the partition are computed, in every variant: the partition does not    *)
(* divide by zero, and the run has one thread, over the whole range, and   *)
(* reports the whole range.                                                *)
(***************************************************************************)
C29_ZeroThreadsIsOne ==
    args.threads = 0 =>
        /\ ~PartitionPanicked
        /\ workers # << >> =>
              /\ threads = 1
              /\ Len(workers) = 1
              /\ workers[1].start = start_index
              /\ workers[1].count = effective_total - start_index
        /\ cpc = "reported" => summary = Some(effective_total - start_index)

====
